---- MODULE Spec2Model ----
(***************************************************************************)
(* AGV spec extraction: the candidate data model, the normalizer, the      *)
(* validator, the confidence-weighted merge, the completeness score and    *)
(* the per-document tool loop of run_extraction_auto.                      *)
(*                                                                         *)
(* Representation.                                                         *)
(*  - A Python str is a sequence of one-character strings.                 *)
(*  - A Python value is a record [t, n, s, kv]: t is "none", "num", "str"  *)
(*    or "dict"; a number n is kept in hundredths (250 kg is 25000);       *)
(*    s holds the characters of a str; kv the ordered items of a dict.     *)
(*  - A confidence is kept in thousandths (0.65 is 650).                   *)
(*  - A dict keyed by field names is a function whose DOMAIN is its keys.  *)
(***************************************************************************)
EXTENDS Integers, Sequences, FiniteSets, TLC

VARIABLES
    input,            \* the input_path argument and what the file system holds there
    min_completeness, \* argument, in tenths
    max_steps,        \* argument
    llm_backend,      \* argument
    pc,               \* position in run_extraction_auto
    paths,            \* the paths iter_inputs still has to yield
    doc,              \* the document being processed: [stem, suffix, text]
    tools,            \* the tool plan of the document
    step,             \* number of tool steps executed for the document
    candidates,       \* cumulative candidate list of the document
    best,             \* trial merged record of the last tool step
    score,            \* completeness of best, in sixths
    invoked,          \* tool identifiers passed to _run_tool for the document
    scores,           \* the score computed after each tool step of the document
    trials,           \* the trial record computed after each tool step of the document
    rows,             \* rows collected for the output table
    written,          \* what has been written to output_path
    final,            \* the record of the final merge of the last finished document
    call              \* a direct call of one of the pure functions: [fn, arg, ret]

vars == <<input, min_completeness, max_steps, llm_backend, pc, paths, doc, tools,
          step, candidates, best, score, invoked, scores, trials, rows, written, final,
          call>>

(***************************************************************************)
(* Values                                                                  *)
(***************************************************************************)
None == [t |-> "none", n |-> 0, s |-> <<>>, kv |-> <<>>]
Num(x) == [t |-> "num", n |-> x, s |-> <<>>, kv |-> <<>>]
Str(chars) == [t |-> "str", n |-> 0, s |-> chars, kv |-> <<>>]
Dict(items) == [t |-> "dict", n |-> 0, s |-> <<>>, kv |-> items]

\* d.get(k)
Get(d, k) == IF k \in DOMAIN d THEN d[k] ELSE None

\* d[k] = v
Put(d, k, v) == [x \in (DOMAIN d) \cup {k} |-> IF x = k THEN v ELSE d[x]]

\* bool(v) is False
Falsy(v) ==
    \/ v.t = "none"
    \/ v.t = "num" /\ v.n = 0
    \/ v.t = "str" /\ v.s = <<>>
    \/ v.t = "dict" /\ v.kv = <<>>

(***************************************************************************)
(* Strings                                                                 *)
(***************************************************************************)
Digits == {"0", "1", "2", "3", "4", "5", "6", "7", "8", "9"}

DigitVal(c) ==
    CASE c = "0" -> 0 [] c = "1" -> 1 [] c = "2" -> 2 [] c = "3" -> 3 [] c = "4" -> 4
      [] c = "5" -> 5 [] c = "6" -> 6 [] c = "7" -> 7 [] c = "8" -> 8 [] c = "9" -> 9

LowerChar(c) ==
    CASE c = "A" -> "a" [] c = "B" -> "b" [] c = "C" -> "c" [] c = "D" -> "d"
      [] c = "E" -> "e" [] c = "F" -> "f" [] c = "G" -> "g" [] c = "H" -> "h"
      [] c = "I" -> "i" [] c = "J" -> "j" [] c = "K" -> "k" [] c = "L" -> "l"
      [] c = "M" -> "m" [] c = "N" -> "n" [] c = "O" -> "o" [] c = "P" -> "p"
      [] c = "Q" -> "q" [] c = "R" -> "r" [] c = "S" -> "s" [] c = "T" -> "t"
      [] c = "U" -> "u" [] c = "V" -> "v" [] c = "W" -> "w" [] c = "X" -> "x"
      [] c = "Y" -> "y" [] c = "Z" -> "z" [] c = "Ä" -> "ä" [] c = "Ö" -> "ö"
      [] c = "Ü" -> "ü" [] OTHER -> c

\* s.lower()
Lower(s) == [i \in 1..Len(s) |-> LowerChar(s[i])]

\* sub in s
Contains(sub, s) ==
    \E i \in 1..(Len(s) - Len(sub) + 1) : SubSeq(s, i, i + Len(sub) - 1) = sub

\* s.replace(",", ".")
ReplaceComma(s) == [i \in 1..Len(s) |-> IF s[i] = "," THEN "." ELSE s[i]]

Whitespace == {" ", "\t", "\n", "\r"}

\* not s.strip()
IsBlank(s) == \A i \in 1..Len(s) : s[i] \in Whitespace

\* the first index >= i of s that holds no digit (Len(s) + 1 when there is none)
RECURSIVE SkipDigits(_, _)
SkipDigits(s, i) ==
    IF i <= Len(s) /\ s[i] \in Digits THEN SkipDigits(s, i + 1) ELSE i

\* the number written by the digits s[i..j-1]
RECURSIVE IntOf(_, _, _)
IntOf(s, i, j) ==
    IF j <= i THEN 0 ELSE IntOf(s, i, j - 1) * 10 + DigitVal(s[j - 1])

\* the fraction written by the digits s[i..j-1] after a decimal point, in
\* hundredths (documents carry at most two significant decimals)
FracOf(s, i, j) ==
    (IF i < j THEN DigitVal(s[i]) * 10 ELSE 0) + (IF i + 1 < j THEN DigitVal(s[i + 1]) ELSE 0)

\* the end (exclusive) of a match of \d+(<sep>\d+)? that starts at the digit s[i]
NumberEnd(s, i, seps) ==
    LET j == SkipDigits(s, i)
    IN  IF j + 1 <= Len(s) /\ s[j] \in seps /\ s[j + 1] \in Digits
        THEN SkipDigits(s, j + 1)
        ELSE j

\* float() of the match of \d+(\.\d+)? at s[i..e-1], in hundredths
FloatOf(s, i, e) ==
    LET j == SkipDigits(s, i)
    IN  IntOf(s, i, j) * 100 + (IF j < e THEN FracOf(s, j + 1, e) ELSE 0)

\* the start of the leftmost match of [-+]?\d+(\.\d+)? at or after i, 0 when none
RECURSIVE SearchNumber(_, _)
SearchNumber(s, i) ==
    IF i > Len(s) THEN 0
    ELSE IF s[i] \in Digits THEN i
    ELSE IF s[i] \in {"-", "+"} /\ i + 1 <= Len(s) /\ s[i + 1] \in Digits THEN i
    ELSE SearchNumber(s, i + 1)

\* float(m.group(0)) for the match that starts at s[m], whose digits start at s[d]
MatchedFloat(s, m, d) ==
    Num((IF s[m] = "-" THEN -1 ELSE 1) * FloatOf(s, d, NumberEnd(s, d, {"."})))

\* float(m.group(0)) if m else None, for the search result m (0 when no match)
FloatAt(s, m) ==
    IF m = 0 THEN None ELSE MatchedFloat(s, m, IF s[m] \in Digits THEN m ELSE m + 1)

\* the search of _to_float in the string s, commas already replaced
SearchFloat(s) == FloatAt(s, SearchNumber(s, 1))

\* a number passed in is printed by str() and read back by float()
_to_float(v) ==
    IF v.t = "none" THEN None
    ELSE IF v.t = "num" THEN v
    ELSE SearchFloat(ReplaceComma(v.s))

\* re.findall(r"\d+(?:[.,]\d+)?", s) from index i on
RECURSIVE FindNumbers(_, _)
FindNumbers(s, i) ==
    IF i > Len(s) THEN <<>>
    ELSE IF s[i] \in Digits
         THEN LET e == NumberEnd(s, i, {".", ","})
              IN  <<SubSeq(s, i, e - 1)>> \o FindNumbers(s, e)
         ELSE FindNumbers(s, i + 1)

\* lower() turns the two characters the replace looks for into others, so the
\* replace never applies; the digits are found in the lowered text
FirstThree(nums) ==
    IF Len(nums) >= 3
    THEN <<_to_float(Str(nums[1])), _to_float(Str(nums[2])), _to_float(Str(nums[3]))>>
    ELSE <<None, None, None>>

_parse_dimensions_mm(text) == FirstThree(FindNumbers(Lower(text), 1))

(***************************************************************************)
(* Candidate model                                                         *)
(***************************************************************************)
\* Evidence(snippet, source_tool, source_id); snippet is None or a str
Evidence(snippet, tool, source_id) ==
    [snippet |-> snippet, source_tool |-> tool, source_id |-> source_id]

AGVSpecCandidate(source_id, tool, fields, confidence, evidence) ==
    [source_id |-> source_id, tool |-> tool, fields |-> fields,
     confidence |-> confidence, evidence |-> evidence]

\* the fields dict from_flat_dict builds from the items d[i..] of a flat dict
RECURSIVE FlatFields(_, _, _)
FlatFields(d, i, fields) ==
    IF i > Len(d) THEN fields
    ELSE LET k == d[i][1]
             v == d[i][2]
         IN  FlatFields(d, i + 1,
                 IF k \in {"device", "device_name"} THEN Put(fields, "device_name", v)
                 ELSE IF k = "vendor" THEN Put(fields, "vendor", v)
                 ELSE Put(fields, k, v))

\* d is the sequence of the (key, value) items of the dict, in insertion order
from_flat_dict(d, source_id, tool) ==
    LET fields == FlatFields(d, 1, <<>>)
    IN  AGVSpecCandidate(source_id, tool, fields,
            [k \in DOMAIN fields |-> 650],
            [k \in DOMAIN fields |-> Evidence(None, tool, source_id)])

\* "; ".join(f"{k}: {v}" for the items kv[i..n])
RECURSIVE Preview(_, _, _)
Preview(kv, i, n) ==
    IF i > n THEN <<>>
    ELSE kv[i][1] \o <<":", " ">> \o kv[i][2]
         \o (IF i < n THEN <<";", " ">> ELSE <<>>) \o Preview(kv, i + 1, n)

\* kv is the sequence of the (key, value) items of the raw table; both are strs
from_key_values(kv, source_id, tool) ==
    LET preview == Preview(kv, 1, IF Len(kv) < 5 THEN Len(kv) ELSE 5)
    IN  AGVSpecCandidate(source_id, tool,
            [k \in {"_kv"} |-> Dict(kv)],
            [k \in {"_kv"} |-> 550],
            [k \in {"_kv"} |-> Evidence(Str(preview), tool, source_id)])

(***************************************************************************)
(* Normalizer                                                              *)
(***************************************************************************)
\* any(frag in kl for frag in frags)
HasAny(kl, frags) == \E frag \in frags : Contains(frag, kl)

DimensionKeys ==
    {<<"a","b","m","e","s","s">>, <<"a","b","m","a","s","s","e">>,
     <<"d","i","m","e","n","s","i","o","n","s">>}
PayloadKeys == {<<"t","r","a","g">>, <<"p","a","y","l","o","a","d">>, <<"l","a","s","t">>}
SpeedKeys == {<<"g","e","s","c","h","w","i","n","d">>, <<"s","p","e","e","d">>}
WeightKeys == {<<"e","i","g","e","n","g","e","w","i","c","h","t">>, <<"w","e","i","g","h","t">>}
TurningKeys == {<<"d","r","e","h","k","r","e","i","s">>, <<"t","u","r","n">>}
LiftKeys == {<<"h","u","b","h">>, <<"l","i","f","t">>}

\* fields["length_mm"], fields["width_mm"], fields["height_mm"] = l, w, h
SetDimensions(fields, dims) ==
    Put(Put(Put(fields, "length_mm", dims[1]), "width_mm", dims[2]), "height_mm", dims[3])

\* the dimension rule of the loop over kv.items()
MapDimensions(fields, kl, v) ==
    IF HasAny(kl, DimensionKeys) THEN SetDimensions(fields, _parse_dimensions_mm(v)) ELSE fields

\* a numeric rule of the loop over kv.items(): fields[canon] = _to_float(v)
MapNumber(fields, kl, v, frags, canon) ==
    IF HasAny(kl, frags) THEN Put(fields, canon, _to_float(Str(v))) ELSE fields

\* the rules of the loop body, in order, for the lowered key kl
MapKey(fields, kl, v) ==
    MapNumber(
      MapNumber(
        MapNumber(
          MapNumber(
            MapNumber(MapDimensions(fields, kl, v), kl, v, PayloadKeys, "payload_kg"),
            kl, v, SpeedKeys, "speed_m_s"),
          kl, v, WeightKeys, "weight_kg"),
        kl, v, TurningKeys, "turning_radius_mm"),
      kl, v, LiftKeys, "lift_height_mm")

\* the loop over kv.items(), from item i on
RECURSIVE NormalizeKV(_, _, _)
NormalizeKV(fields, kv, i) ==
    IF i > Len(kv) THEN fields
    ELSE NormalizeKV(MapKey(fields, Lower(kv[i][1]), kv[i][2]), kv, i + 1)

\* if isinstance(kv, dict): map the raw table
MapRawTable(fields) ==
    IF Get(fields, "_kv").t = "dict" THEN NormalizeKV(fields, fields["_kv"].kv, 1) ELSE fields

\* fields[k] = fields.get(k) or v
FillOr(fields, k, v) == Put(fields, k, IF Falsy(Get(fields, k)) THEN v ELSE Get(fields, k))

\* if "abmasse" in fields and isinstance(fields["abmasse"], str): fill the dimensions
FillDimensions(fields, dims) ==
    FillOr(FillOr(FillOr(fields, "length_mm", dims[1]), "width_mm", dims[2]), "height_mm", dims[3])

MapAbmasse(fields) ==
    IF "abmasse" \in DOMAIN fields /\ fields["abmasse"].t = "str"
    THEN FillDimensions(fields, _parse_dimensions_mm(fields["abmasse"].s))
    ELSE fields

\* if isinstance(fields.get(raw), str) and fields.get(canon) is None: fill canon
FillFrom(fields, raw, canon) ==
    IF Get(fields, raw).t = "str" /\ Get(fields, canon).t = "none"
    THEN Put(fields, canon, _to_float(Get(fields, raw)))
    ELSE fields

\* device/vendor naming; original is c.fields
MapNames(fields, original) ==
    [x \in (DOMAIN fields)
           \cup (IF "device" \in DOMAIN fields THEN {"device_name"} ELSE {})
           \cup (IF "vendor" \in DOMAIN original THEN {"vendor"} ELSE {}) |->
        IF x \in DOMAIN fields THEN fields[x]
        ELSE IF x = "device_name" THEN fields["device"]
        ELSE original["vendor"]]

normalize_candidate(c) ==
    [c EXCEPT !.fields =
        MapNames(
          FillFrom(
            FillFrom(
              FillFrom(
                FillFrom(MapAbmasse(MapRawTable(c.fields)), "max_last", "payload_kg"),
                "eigengewicht", "weight_kg"),
              "drehkreis", "turning_radius_mm"),
            "max_hubhoehe", "lift_height_mm"),
          c.fields)]

(***************************************************************************)
(* Validator                                                               *)
(***************************************************************************)
\* faulty variant: the confidence is left as it is
penalize_keep(confidence, key) == confidence

\* penalize(key): halve the confidence entry of key, when there is one
penalize(confidence, key) ==
    IF key \in DOMAIN confidence
    THEN [confidence EXCEPT ![key] = confidence[key] \div 2]
    ELSE confidence

\* upper plausibility limits, in hundredths
PayloadLimit == 100000 * 100
DimensionLimit == 50000 * 100

\* faulty variant: every number counts as implausible
OutOfRange_any(v, limit) == v.t = "num"

\* faulty variant: the upper limit itself counts as implausible
OutOfRange_inclusive(v, limit) == v.t = "num" /\ (v.n <= 0 \/ v.n >= limit)

\* isinstance(v, (int, float)) and (v <= 0 or v > limit)
OutOfRange(v, limit) == v.t = "num" /\ (v.n <= 0 \/ v.n > limit)

\* one plausibility check: penalize key when its value lies outside (0, limit]
CheckRange(c, confidence, key, limit) ==
    IF OutOfRange(Get(c.fields, key), limit) THEN penalize(confidence, key) ELSE confidence

validate_candidate(c) ==
    [c EXCEPT !.confidence =
        CheckRange(c,
          CheckRange(c,
            CheckRange(c,
              CheckRange(c, c.confidence, "payload_kg", PayloadLimit),
              "length_mm", DimensionLimit),
            "width_mm", DimensionLimit),
          "height_mm", DimensionLimit)]

(***************************************************************************)
(* Merger                                                                  *)
(***************************************************************************)
\* the dataclass fields of AGVSpec that hold a device or measurement value
DeviceFields ==
    {"device_name", "vendor", "length_mm", "width_mm", "height_mm", "payload_kg",
     "speed_m_s", "weight_kg", "turning_radius_mm", "lift_height_mm"}

\* AGVSpec()
AGVSpec ==
    [source_id |-> None, tool_trace |-> <<>>,
     device_name |-> None, vendor |-> None,
     length_mm |-> None, width_mm |-> None, height_mm |-> None,
     payload_kg |-> None, speed_m_s |-> None, weight_kg |-> None,
     turning_radius_mm |-> None, lift_height_mm |-> None,
     _evidence |-> <<>>, _confidence |-> <<>>]

\* {f.name for f in dc_fields(AGVSpec) if not f.name.startswith("_")}
canonical == (DOMAIN AGVSpec) \ {"_evidence", "_confidence"}

\* faulty variant: the lower confidence wins
Replaces_lower(best_, field, conf) == field \notin DOMAIN best_ \/ conf < best_[field].conf

\* faulty variant: a later candidate of equal confidence wins
Replaces_or_equal(best_, field, conf) == field \notin DOMAIN best_ \/ conf >= best_[field].conf

\* does the entry of cand replace the entry best holds for field
Replaces(best_, field, conf) == field \notin DOMAIN best_ \/ conf > best_[field].conf

\* faulty variant: the check against the canonical names is missing
Eligible_any(cand) == {f \in DOMAIN cand.fields : cand.fields[f].t # "none"}

\* faulty variant: a null value is not skipped
Eligible_with_null(cand) == {f \in DOMAIN cand.fields : f \in canonical}

\* the fields of cand the loop does not skip
Eligible(cand) == {f \in DOMAIN cand.fields : f \in canonical /\ cand.fields[f].t # "none"}

\* faulty variant: a field without an entry takes the confidence of the raw table
ConfOf_raw_table(cand, f) ==
    IF f \in DOMAIN cand.confidence THEN cand.confidence[f]
    ELSE IF "_kv" \in DOMAIN cand.confidence THEN cand.confidence["_kv"] ELSE 0

\* cand.confidence.get(field, 0.0)
ConfOf(cand, f) == IF f \in DOMAIN cand.confidence THEN cand.confidence[f] ELSE 0

\* cand.evidence.get(field), as the sequence of the evidence found
EvOf(cand, f) == IF f \in DOMAIN cand.evidence THEN <<cand.evidence[f]>> ELSE <<>>

\* the inner loop of merge_candidates over the fields of one candidate
MergeOne(best_, cand) ==
    [f \in (DOMAIN best_) \cup Eligible(cand) |->
        IF f \in Eligible(cand) /\ Replaces(best_, f, ConfOf(cand, f))
        THEN [conf |-> ConfOf(cand, f), val |-> cand.fields[f], ev |-> EvOf(cand, f)]
        ELSE best_[f]]

\* the loop of merge_candidates over the candidates cs[i..]
RECURSIVE BestOf(_, _, _)
BestOf(best_, cs, i) ==
    IF i > Len(cs) THEN best_ ELSE BestOf(MergeOne(best_, cs[i]), cs, i + 1)

\* faulty variant: the document identifier is taken from the first candidate
Merged_first_source(b, cs) ==
    [f \in DOMAIN AGVSpec |->
        CASE f = "source_id" -> cs[1].source_id
          [] f = "tool_trace" -> [i \in 1..Len(cs) |-> cs[i].tool]
          [] f = "_evidence" -> [g \in {h \in DOMAIN b : b[h].ev # <<>>} |-> b[g].ev[1]]
          [] f = "_confidence" -> [g \in DOMAIN b |-> b[g].conf]
          [] OTHER -> IF f \in DOMAIN b THEN b[f].val ELSE None]

\* the record built from the winning triples b of the candidates cs
Merged(b, cs) ==
    [f \in DOMAIN AGVSpec |->
        CASE f = "source_id" -> cs[Len(cs)].source_id
          [] f = "tool_trace" -> [i \in 1..Len(cs) |-> cs[i].tool]
          [] f = "_evidence" -> [g \in {h \in DOMAIN b : b[h].ev # <<>>} |-> b[g].ev[1]]
          [] f = "_confidence" -> [g \in DOMAIN b |-> b[g].conf]
          [] OTHER -> IF f \in DOMAIN b THEN b[f].val ELSE None]

merge_candidates(cs) ==
    IF cs = <<>> THEN AGVSpec ELSE Merged(BestOf(<<>>, cs, 1), cs)

(***************************************************************************)
(* Completeness score                                                      *)
(***************************************************************************)
\* faulty variant: the vendor is a core field as well
CORE_FIELDS_with_vendor ==
    <<"device_name", "length_mm", "width_mm", "height_mm", "payload_kg", "speed_m_s", "vendor">>

CORE_FIELDS ==
    <<"device_name", "length_mm", "width_mm", "height_mm", "payload_kg", "speed_m_s">>

\* faulty variant: a value of 0 is not counted
Filled_truthy(v) == ~Falsy(v) /\ ~(v.t = "str" /\ IsBlank(v.s))

\* does the loop of completeness_score count the value v
Filled(v) == v.t # "none" /\ ~(v.t = "str" /\ IsBlank(v.s))

\* filled, the numerator of the score; the score is filled / len(CORE_FIELDS)
completeness_score(spec) ==
    Cardinality({i \in 1..Len(CORE_FIELDS) : Filled(spec[CORE_FIELDS[i]])})

\* faulty variant: the threshold has to be exceeded
ThresholdReached_strict(filled, threshold) == filled * 10 > threshold * Len(CORE_FIELDS)

\* score >= min_completeness, for a score in sixths and a threshold in tenths
ThresholdReached(filled, threshold) == filled * 10 >= threshold * Len(CORE_FIELDS)

\* the characters of a tool identifier
ToolChars(tool) ==
    CASE tool = "regex_agilox" -> <<"r","e","g","e","x","_","a","g","i","l","o","x">>
      [] tool = "regex_generic" -> <<"r","e","g","e","x","_","g","e","n","e","r","i","c">>
      [] tool = "key_value" -> <<"k","e","y","_","v","a","l","u","e">>
      [] tool = "llm" -> <<"l","l","m">>

\* ",".join(trace[i..])
RECURSIVE Join(_, _)
Join(trace, i) ==
    IF i > Len(trace) THEN <<>>
    ELSE ToolChars(trace[i]) \o (IF i < Len(trace) THEN <<",">> ELSE <<>>) \o Join(trace, i + 1)

\* AGVSpec.to_row_dict(): the canonical columns, then evidence_<k>, source_<k>
\* and confidence_<k> columns, then tool_trace joined (None when empty)
to_row_dict(spec) ==
    [columns |-> [f \in canonical \ {"tool_trace"} |-> spec[f]],
     evidence |-> [k \in DOMAIN spec._evidence |-> spec._evidence[k].snippet],
     source |-> [k \in DOMAIN spec._evidence |-> spec._evidence[k].source_tool],
     confidence |-> spec._confidence,
     tool_trace |-> IF spec.tool_trace = <<>> THEN None ELSE Str(Join(spec.tool_trace, 1))]

(***************************************************************************)
(* Documents and collaborators                                             *)
(*                                                                         *)
(* The text extractors are collaborators of the loop: a text is given with *)
(* what each extractor finds in it.  regex_agilox yields one flat row per  *)
(* section, regex_generic one flat dict over its wanted features,          *)
(* key_value the raw table in line order.                                  *)
(***************************************************************************)
NA == Str(<<"N","A">>)

\* one row of extract_agilox_specs: vendor, device and one entry per pattern
AgiloxRow(device, abmasse, eigengewicht, max_last) ==
    << <<"vendor", Str(<<"A","G","I","L","O","X">>)>>, <<"device", Str(device)>>,
       <<"abmasse", abmasse>>, <<"eigengewicht", eigengewicht>>, <<"max_last", max_last>>,
       <<"max_hubhoehe", NA>>, <<"max_stationshoehe_epal", NA>>, <<"drehkreis", NA>>,
       <<"min_gangbreite", NA>>, <<"min_durchfahrtsbreite", NA>>, <<"ladezeit", NA>> >>

\* the dict of extract_features_from_text over the wanted features
GenericDict(payload) ==
    << <<"dimensions", None>>, <<"payload", payload>>, <<"speed", None>>,
       <<"weight", None>>, <<"turning radius", None>> >>

\* the texts of the documents
Corpus ==
    << \* a vendor brochure with two device sections
       [text |-> <<"A","G","I","L","O","X"," ","O","N","E"," ","N","F","K">>,
        regex_agilox |->
          << AgiloxRow(<<"A","G","I","L","O","X"," ","O","N","E">>,
                       Str(<<"8","0","0"," ","X"," ","6","0","0"," ","X"," ","9","0"," ","M","M">>),
                       Str(<<"4","0","0","K","G">>), Str(<<"2","5","0","K","G">>)),
             AgiloxRow(<<"A","G","I","L","O","X"," ","N","a","r","r","o","w","f","o","r","k"," ","(","N","F","K",")">>,
                       NA, NA, Str(<<"0","K","G">>)) >>,
        regex_generic |-> GenericDict(None),
        key_value |->
          << << <<"G","e","s","c","h","w","i","n","d","i","g","k","e","i","t">>,
                <<"1",",","4"," ","m","/","s">> >> >>],
       \* a key-value sheet
       [text |-> <<"P","a","y","l","o","a","d",":"," ","5","0","0"," ","k","g">>,
        regex_agilox |-> <<>>,
        regex_generic |-> GenericDict(Str(<<"5","0","0"," ","k","g">>)),
        key_value |->
          << << <<"A","b","m","e","s","s","u","n","g","e","n">>,
                <<"1","5","0","0"," ","x"," ","8","0","0"," ","x"," ","1","2","0","0"," ","m","m">> >>,
             << <<"P","a","y","l","o","a","d">>, <<"5","0","0"," ","k","g">> >> >>],
       \* a text without any field
       [text |-> <<>>,
        regex_agilox |-> <<>>,
        regex_generic |-> GenericDict(None),
        key_value |-> <<>>] >>

\* what extract_with_llm may return for a configured backend: {} on any
\* failure, else the JSON object of the model's answer
LLMResponses ==
    { <<>>,
      << <<"device_name", Str(<<"X">>)>>, <<"length_mm", Num(150000)>>,
         <<"width_mm", Num(80000)>>, <<"height_mm", Num(120000)>>,
         <<"payload_kg", Num(50000)>>, <<"speed_m_s", Num(150)>> >>,
      << <<"payload_kg", Num(999999900)>>, <<"source_id", Str(<<"X">>)>> >>,
      << <<"device_name", Str(<<"X">>)>>, <<"payload_kg", None>>, <<"weight_kg", None>> >> }

\* bounds of the inputs: the files of a folder, the largest step budget
MaxFiles == 2
MaxStepBudget == 3

StemChars == <<"1", "2", "3", "4", "5", "6", "7", "8", "9">>

\* Path.name
Name(path) ==
    Str(<<"d", StemChars[path.stem]>> \o
        (CASE path.suffix = "pdf" -> <<".","p","d","f">>
           [] path.suffix = "txt" -> <<".","t","x","t">>
           [] OTHER -> <<".","d","o","c","x">>))

\* sorted(p.glob(pattern)): the files of one suffix, by name
RECURSIVE Sorted(_)
Sorted(files) ==
    IF files = {} THEN <<>>
    ELSE LET first == CHOOSE f \in files : \A g \in files : f.stem <= g.stem
         IN  <<first>> \o Sorted(files \ {first})

\* the paths iter_inputs yields for an existing file or folder
iter_inputs(inp) ==
    IF inp.kind = "file" THEN Sorted(inp.files)
    ELSE LET pdfs == {f \in inp.files : f.suffix = "pdf"}
             pdf_stems == {f.stem : f \in pdfs}
         IN  Sorted(pdfs) \o
             Sorted({f \in inp.files : f.suffix = "txt" /\ f.stem \notin pdf_stems})

\* the stems of the file names: d1, d2
Stems == 1..2

Paths == [stem : Stems, suffix : {"pdf", "txt", "docx"}, text : 1..Len(Corpus)]

\* the files a folder is searched for
Globbed == {p \in Paths : p.suffix \in {"pdf", "txt"}}

\* the input_path arguments: a URL, a missing path, one file, a folder
Inputs ==
    {[kind |-> "url", files |-> {}], [kind |-> "missing", files |-> {}]}
    \cup {[kind |-> "file", files |-> {f}] : f \in {p \in Paths : p.stem = 1}}
    \cup {[kind |-> "dir", files |-> fs] :
            fs \in {s \in SUBSET Globbed :
                      /\ Cardinality(s) <= MaxFiles
                      /\ \A f, g \in s : f.stem = g.stem /\ f.suffix = g.suffix => f = g}}

(***************************************************************************)
(* Tool planner and tool dispatch                                          *)
(***************************************************************************)
\* faulty variant: the markers are looked for in the text as it is written
_looks_like_agilox_cased(text) ==
    \/ Contains(<<"a","g","i","l","o","x">>, text)
    \/ Contains(<<"n","f","k">>, text)
    \/ Contains(<<"d","r","e","h","k","r","e","i","s">>, text)
    \/ Contains(<<"e","i","g","e","n","g","e","w","i","c","h","t">>, text)

_looks_like_agilox(text) ==
    LET t == Lower(text)
    IN  \/ Contains(<<"a","g","i","l","o","x">>, t)
        \/ Contains(<<"n","f","k">>, t)
        \/ Contains(<<"d","r","e","h","k","r","e","i","s">>, t)
        \/ Contains(<<"e","i","g","e","n","g","e","w","i","c","h","t">>, t)

_tool_plan_for_text(text) ==
    IF _looks_like_agilox(text)
    THEN <<"regex_agilox", "key_value", "llm">>
    ELSE <<"key_value", "regex_generic", "llm">>

\* [t for t in tools if t != "llm"]
RECURSIVE WithoutLLM(_)
WithoutLLM(ts) ==
    IF ts = <<>> THEN <<>>
    ELSE (IF Head(ts) # "llm" THEN <<Head(ts)>> ELSE <<>>) \o WithoutLLM(Tail(ts))

\* faulty variant: the plan is not cut to the step budget
Truncate_none(ts, n) == ts

\* tools[:max_steps], for max_steps >= 0
Truncate(ts, n) == SubSeq(ts, 1, IF n < Len(ts) THEN n ELSE Len(ts))

\* faulty variant: the model-assisted tool is dropped whatever the backend
PlannedTools_never_llm(text, backend, steps) ==
    Truncate(WithoutLLM(_tool_plan_for_text(text)), steps)

\* the plan run_extraction_auto iterates over
PlannedTools(text, backend, steps) ==
    LET plan == _tool_plan_for_text(text)
    IN  Truncate(IF backend = "none" THEN WithoutLLM(plan) ELSE plan, steps)

\* faulty variant: the generic regex tool is not dispatched
ImplementedTools_without_generic == {"regex_agilox", "key_value", "llm"}

\* the tool identifiers _run_tool has a branch for
ImplementedTools == {"regex_agilox", "regex_generic", "key_value", "llm"}

\* the candidate lists _run_tool may return for an implemented tool
_run_tool(tool, t, source_id, backend) ==
    CASE tool = "regex_agilox" ->
           {[i \in 1..Len(Corpus[t].regex_agilox) |->
                from_flat_dict(Corpus[t].regex_agilox[i], source_id, tool)]}
      [] tool = "regex_generic" ->
           {<<from_flat_dict(Corpus[t].regex_generic, source_id, tool)>>}
      [] tool = "key_value" ->
           {<<from_key_values(Corpus[t].key_value, source_id, tool)>>}
      [] tool = "llm" ->
           {<<from_flat_dict(r, source_id, tool)>> :
               r \in IF backend = "none" THEN {<<>>} ELSE LLMResponses}

\* faulty variant: the list is started afresh with the candidates of each tool
AppendCandidates_replace(cands, new_cands) ==
    [i \in 1..Len(new_cands) |-> validate_candidate(normalize_candidate(new_cands[i]))]

\* the loop over new_cands: normalize, validate and append each candidate
AppendCandidates(cands, new_cands) ==
    cands \o [i \in 1..Len(new_cands) |-> validate_candidate(normalize_candidate(new_cands[i]))]

(***************************************************************************)
(* run_extraction_auto                                                     *)
(***************************************************************************)
MinCompletenessValues == {0, 6, 10}
\* the engine "local" is driven as "openai" is: an answer, or {} on any failure
Backends == {"none", "openai"}

NoDoc == [stem |-> 0, suffix |-> "", text |-> 0]
NoCall == [fn |-> "none", arg |-> <<>>, ret |-> <<>>]

Raised == {"FileNotFoundError", "RuntimeError", "ValueError"}

Init ==
    /\ input \in Inputs
    /\ min_completeness \in MinCompletenessValues
    /\ max_steps \in 0..MaxStepBudget
    /\ llm_backend \in Backends
    /\ pc = "start"
    /\ paths = <<>>
    /\ doc = NoDoc
    /\ tools = <<>>
    /\ step = 0
    /\ candidates = <<>>
    /\ best = AGVSpec
    /\ score = 0
    /\ invoked = <<>>
    /\ scores = <<>>
    /\ trials = <<>>
    /\ rows = <<>>
    /\ written = "nothing"
    /\ final = AGVSpec
    /\ call = NoCall

\* URL mode: the scraped table is written and returned
ScrapeUrl ==
    /\ pc = "start"
    /\ input.kind = "url"
    /\ written' = "scraped"
    /\ pc' = "done"
    /\ UNCHANGED <<input, min_completeness, max_steps, llm_backend, paths, doc, tools, step,
                   candidates, best, score, invoked, scores, trials, rows, final, call>>

\* file/folder mode: iter_inputs starts, or raises for a path that does not exist
StartInputs ==
    /\ pc = "start"
    /\ input.kind # "url"
    /\ IF input.kind = "missing"
       THEN pc' = "FileNotFoundError" /\ paths' = paths
       ELSE pc' = "next_path" /\ paths' = iter_inputs(input)
    /\ UNCHANGED <<input, min_completeness, max_steps, llm_backend, doc, tools, step,
                   candidates, best, score, invoked, scores, trials, rows, written, final,
                   call>>

\* a path that is neither .pdf nor .txt/.text is skipped
SkipUnsupported ==
    /\ pc = "next_path"
    /\ paths # <<>>
    /\ Head(paths).suffix \notin {"pdf", "txt"}
    /\ paths' = Tail(paths)
    /\ UNCHANGED <<input, min_completeness, max_steps, llm_backend, pc, doc, tools, step,
                   candidates, best, score, invoked, scores, trials, rows, written, final,
                   call>>

\* the text of the next document is read and its tools are planned
OpenDocument ==
    /\ pc = "next_path"
    /\ paths # <<>>
    /\ Head(paths).suffix \in {"pdf", "txt"}
    /\ doc' = Head(paths)
    /\ tools' = PlannedTools(Corpus[doc'.text].text, llm_backend, max_steps)
    /\ step' = 0
    /\ candidates' = <<>>
    /\ invoked' = <<>>
    /\ scores' = <<>>
    /\ trials' = <<>>
    /\ pc' = IF tools' = <<>> THEN "final" ELSE "loop"
    /\ UNCHANGED <<input, min_completeness, max_steps, llm_backend, paths, best, score,
                   rows, written, final, call>>

\* read_pdf_text finds no engine that can read the file: the error leaves
\* _extract_from_pdf and run_extraction_auto
PdfReadFails ==
    /\ pc = "next_path"
    /\ paths # <<>>
    /\ Head(paths).suffix = "pdf"
    /\ doc' = Head(paths)
    /\ pc' = "RuntimeError"
    /\ UNCHANGED <<input, min_completeness, max_steps, llm_backend, paths, tools, step,
                   candidates, best, score, invoked, scores, trials, rows, written, final,
                   call>>

\* faulty variant: the break is missing
AfterStep_no_break(reached, more) == IF more THEN "loop" ELSE "final"

\* where the loop goes after a tool step
AfterStep(reached, more) == IF reached THEN "final" ELSE IF more THEN "loop" ELSE "final"

\* one iteration of the loop over the planned tools
ToolStep ==
    /\ pc = "loop"
    /\ step < Len(tools)
    /\ invoked' = Append(invoked, tools[step + 1])
    /\ step' = step + 1
    /\ IF tools[step + 1] \notin ImplementedTools
       THEN /\ pc' = "ValueError"
            /\ UNCHANGED <<candidates, best, score, scores, trials>>
       ELSE \E new_cands \in _run_tool(tools[step + 1], doc.text, Name(doc), llm_backend) :
              /\ candidates' = AppendCandidates(candidates, new_cands)
              /\ best' = merge_candidates(candidates')
              /\ score' = completeness_score(best')
              /\ scores' = Append(scores, score')
              /\ trials' = Append(trials, best')
              /\ pc' = AfterStep(ThresholdReached(score', min_completeness),
                                 step' < Len(tools))
    /\ UNCHANGED <<input, min_completeness, max_steps, llm_backend, paths, doc, tools, rows,
                   written, final, call>>

\* faulty variant: a document without candidates gets no row
Finalize_skip_empty ==
    /\ pc = "final"
    /\ final' = merge_candidates(candidates)
    /\ rows' = IF candidates = <<>> THEN rows ELSE Append(rows, to_row_dict(final'))
    /\ paths' = Tail(paths)
    /\ pc' = "next_path"
    /\ UNCHANGED <<input, min_completeness, max_steps, llm_backend, doc, tools, step,
                   candidates, best, score, invoked, scores, trials, written, call>>

\* faulty variant: the final merge sees only the last candidate
Finalize_last_candidate ==
    /\ pc = "final"
    /\ final' = IF candidates = <<>> THEN AGVSpec
                ELSE merge_candidates(<<candidates[Len(candidates)]>>)
    /\ rows' = Append(rows, to_row_dict(final'))
    /\ paths' = Tail(paths)
    /\ pc' = "next_path"
    /\ UNCHANGED <<input, min_completeness, max_steps, llm_backend, doc, tools, step,
                   candidates, best, score, invoked, scores, trials, written, call>>

\* the final merge of the document and its row
Finalize ==
    /\ pc = "final"
    /\ final' = merge_candidates(candidates)
    /\ rows' = Append(rows, to_row_dict(final'))
    /\ paths' = Tail(paths)
    /\ pc' = "next_path"
    /\ UNCHANGED <<input, min_completeness, max_steps, llm_backend, doc, tools, step,
                   candidates, best, score, invoked, scores, trials, written, call>>

\* write_output_table(df_out, output_path)
WriteTable ==
    /\ pc = "next_path"
    /\ paths = <<>>
    /\ written' = "table"
    /\ pc' = "done"
    /\ UNCHANGED <<input, min_completeness, max_steps, llm_backend, paths, doc, tools, step,
                   candidates, best, score, invoked, scores, trials, rows, final, call>>

Next ==
    \/ ScrapeUrl
    \/ StartInputs
    \/ SkipUnsupported
    \/ OpenDocument
    \/ PdfReadFails
    \/ ToolStep
    \/ Finalize
    \/ WriteTable

Spec == Init /\ [][Next]_vars

(***************************************************************************)
(* Direct calls of the pure functions                                      *)
(*                                                                         *)
(* The candidates are built the way the tools build them (from_flat_dict,  *)
(* from_key_values), then normalized; merge_candidates is called on lists  *)
(* of validated candidates, validate_candidate on normalized ones.         *)
(***************************************************************************)
MaxCands == 3

Doc1 == Str(<<"d","1",".","p","d","f">>)
Doc2 == Str(<<"d","2",".","t","x","t">>)

\* flat dicts as the tools hand them to from_flat_dict
PayloadDicts ==
    {<< <<"payload_kg", v>> >> :
        v \in {None, Num(25000), Num(50000), Num(999999900)}}

\* raw tables as extract_key_values_from_text returns them
PayloadTables ==
    {<< << <<"P","a","y","l","o","a","d">>, <<"3","0","0"," ","k","g">> >> >>,
     << << <<"M","a","x"," ","L","a","s","t">>, <<"0"," ","k","g">> >> >>}

\* validated candidates of one document, from different tools
MergePool ==
    {validate_candidate(normalize_candidate(from_flat_dict(d, Doc1, "regex_agilox"))) :
        d \in PayloadDicts}
    \cup {validate_candidate(normalize_candidate(from_flat_dict(d, Doc1, "llm"))) :
        d \in PayloadDicts
              \cup {<< <<"source_id", Str(<<"X">>)>>, <<"device", Str(<<"X">>)>> >>,
                    << <<"abmasse", Str(<<"8"," ","x"," ","6">>)>>, <<"max_last", NA>>,
                       <<"payload_kg", Str(<<"2","5","0">>)>> >>}}
    \cup {validate_candidate(normalize_candidate(from_key_values(kv, Doc1, "key_value"))) :
        kv \in PayloadTables}
    \cup {validate_candidate(normalize_candidate(
              from_flat_dict(<< <<"payload_kg", Num(25000)>> >>, Doc2, "regex_generic")))}

RECURSIVE ListsOf(_, _)
ListsOf(pool, n) ==
    IF n = 0 THEN {<<>>}
    ELSE ListsOf(pool, n - 1)
         \cup {Append(cs, c) : cs \in {l \in ListsOf(pool, n - 1) : Len(l) = n - 1}, c \in pool}

\* the numbers around the limits of the validator, in hundredths
PayloadValues ==
    {None, Str(<<"0">>), Num(-100), Num(0), Num(1), Num(10000000), Num(10000001)}
DimensionValues == {None, Num(0), Num(5000000), Num(5000001)}

\* normalized candidates with a confidence for every field (from_flat_dict) and
\* without one for the canonical fields (from_key_values)
ValidateInputs ==
    {normalize_candidate(from_flat_dict(
         << <<"payload_kg", p>>, <<dim, d>>, <<"speed_m_s", Num(-100)>> >>, Doc1, "llm")) :
        p \in PayloadValues, dim \in {"length_mm", "width_mm", "height_mm"},
        d \in DimensionValues}
    \cup {normalize_candidate(from_key_values(kv, Doc1, "key_value")) :
        kv \in PayloadTables
               \cup {<< << <<"D","i","m","e","n","s","i","o","n","s">>,
                          <<"0"," ","x"," ","9","0","0","0","0"," ","x"," ","5">> >>,
                       << <<"P","a","y","l","o","a","d">>,
                          <<"9","9","9","9","9","9","9"," ","k","g">> >> >>}}

UnitInit ==
    /\ input = [kind |-> "none", files |-> {}]
    /\ min_completeness = 0
    /\ max_steps = 0
    /\ llm_backend = "none"
    /\ pc = "unit"
    /\ paths = <<>>
    /\ doc = NoDoc
    /\ tools = <<>>
    /\ step = 0
    /\ candidates = <<>>
    /\ best = AGVSpec
    /\ score = 0
    /\ invoked = <<>>
    /\ scores = <<>>
    /\ trials = <<>>
    /\ rows = <<>>
    /\ written = "nothing"
    /\ final = AGVSpec
    /\ call = NoCall

CallMerge ==
    /\ call.fn = "none"
    /\ pc = "unit"
    /\ \E cs \in ListsOf(MergePool, MaxCands) :
          call' = [fn |-> "merge_candidates", arg |-> cs, ret |-> merge_candidates(cs)]
    /\ UNCHANGED <<input, min_completeness, max_steps, llm_backend, pc, paths, doc, tools,
                   step, candidates, best, score, invoked, scores, trials, rows, written,
                   final>>

CallValidate ==
    /\ call.fn = "none"
    /\ pc = "unit"
    /\ \E c \in ValidateInputs :
          call' = [fn |-> "validate_candidate", arg |-> c, ret |-> validate_candidate(c)]
    /\ UNCHANGED <<input, min_completeness, max_steps, llm_backend, pc, paths, doc, tools,
                   step, candidates, best, score, invoked, scores, trials, rows, written,
                   final>>

\* the candidates one tool step hands to the loop, as the factories build them
RawPool ==
    {from_flat_dict(<< <<"payload_kg", Num(25000)>> >>, Doc1, "regex_agilox"),
     from_flat_dict(<< <<"payload_kg", Num(999999900)>> >>, Doc1, "regex_generic"),
     from_flat_dict(<< <<"payload_kg", None>>, <<"speed", Str(<<"2">>)>> >>, Doc1, "regex_generic"),
     from_flat_dict(<< <<"device", Str(<<"X">>)>>, <<"vendor", Str(<<"V">>)>>,
                       <<"length_mm", Num(150000)>>, <<"width_mm", Num(5000000)>>,
                       <<"height_mm", Num(1)>>, <<"payload_kg", Num(10000000)>>,
                       <<"speed_m_s", Num(0)>>, <<"lift_height_mm", None>> >>, Doc1, "llm"),
     from_flat_dict(<< <<"payload_kg", Str(<<"2","5","0">>)>>, <<"weight_kg", Num(-100)>> >>,
                    Doc1, "llm"),
     from_flat_dict(<< <<"source_id", Str(<<"X">>)>>, <<"payload_kg", Num(50000)>> >>,
                    Doc1, "llm"),
     from_flat_dict(<< <<"max_last", Str(<<"2","5","0","K","G">>)>>, <<"payload_kg", None>> >>,
                    Doc1, "regex_agilox"),
     from_key_values(<< << <<"P","a","y","l","o","a","d">>, <<"3","0","0"," ","k","g">> >> >>,
                     Doc1, "key_value"),
     from_key_values(<< << <<"D","i","m","e","n","s","i","o","n","s">>,
                           <<"0"," ","x"," ","9","0","0","0","0"," ","x"," ","5">> >>,
                        << <<"P","a","y","l","o","a","d">>,
                           <<"9","9","9","9","9","9","9"," ","k","g">> >> >>,
                     Doc1, "key_value")}

\* lines 132-137 of run_extraction_auto for the candidates of a first tool
\* step: each one normalized, validated and appended, then the trial merge
CallTrialMerge ==
    /\ call.fn = "none"
    /\ pc = "unit"
    /\ \E new_cands \in ListsOf(RawPool, MaxCands) :
          call' = [fn |-> "trial_merge", arg |-> new_cands,
                   ret |-> merge_candidates(AppendCandidates(<<>>, new_cands))]
    /\ UNCHANGED <<input, min_completeness, max_steps, llm_backend, pc, paths, doc, tools,
                   step, candidates, best, score, invoked, scores, trials, rows, written,
                   final>>

\* records to score: every combination of null, blank, zero, implausible and
\* plausible values of the six core fields
ScoreInputs ==
    {[AGVSpec EXCEPT !.device_name = d, !.length_mm = l, !.width_mm = w,
                     !.height_mm = h, !.payload_kg = p, !.speed_m_s = s] :
        d \in {None, Str(<<>>), Str(<<" ", " ">>), Str(<<" ", "X">>)},
        l \in {None, Num(0)}, w \in {None, Num(5000001)},
        h \in {None, Str(<<" ">>)}, p \in {None, Num(-100)}, s \in {None, Num(150)}}

\* the record spec with other values of the fields that are not core fields
OtherDetails(spec) ==
    [spec EXCEPT !.vendor = Str(<<"V">>), !.weight_kg = Num(40000),
                 !.turning_radius_mm = Num(0), !.lift_height_mm = Num(9000),
                 !.source_id = Doc1, !.tool_trace = <<"key_value", "llm">>,
                 !._evidence = [k \in {"vendor"} |-> Evidence(None, "llm", Doc1)],
                 !._confidence = [k \in {"vendor", "payload_kg"} |-> 325]]

\* records to compare spec with: itself, one that differs in what is not a
\* core field, and ones that differ in one core field
Variations(spec) ==
    {spec, OtherDetails(spec),
     [spec EXCEPT !.device_name = IF spec.device_name = None THEN Str(<<"Y">>) ELSE None],
     [OtherDetails(spec) EXCEPT !.speed_m_s = IF spec.speed_m_s = None THEN Num(0) ELSE None]}

\* completeness_score called on two records
CallScore ==
    /\ call.fn = "none"
    /\ pc = "unit"
    /\ \E a \in ScoreInputs :
          \E b \in Variations(a) :
             call' = [fn |-> "completeness_score", arg |-> <<a, b>>,
                      ret |-> <<completeness_score(a), completeness_score(b)>>]
    /\ UNCHANGED <<input, min_completeness, max_steps, llm_backend, pc, paths, doc, tools,
                   step, candidates, best, score, invoked, scores, trials, rows, written,
                   final>>

\* texts to plan for: the texts of the documents and texts with and without
\* the vendor markers, in upper, lower and mixed case
PlanTexts ==
    {Corpus[t].text : t \in 1..Len(Corpus)}
    \cup {<<"A","G","I","L","O","X">>, <<"a","g","i","l","o","x">>, <<"x"," ","N","f","k","2">>,
          <<"D","r","e","h","k","r","e","i","s",":"," ","1">>,
          <<"E","I","G","E","N","G","E","W","I","C","H","T">>,
          <<"a","g","i"," ","l","o","x">>, <<"n","f">>, <<"d","r","e","h","k","r","e","i","z">>,
          <<"s","p","e","e","d",":"," ","1"," ","m","/","s">>, <<"l","l","m">>}

\* _tool_plan_for_text called on a text
CallPlan ==
    /\ call.fn = "none"
    /\ pc = "unit"
    /\ \E text \in PlanTexts :
          call' = [fn |-> "_tool_plan_for_text", arg |-> text, ret |-> _tool_plan_for_text(text)]
    /\ UNCHANGED <<input, min_completeness, max_steps, llm_backend, pc, paths, doc, tools,
                   step, candidates, best, score, invoked, scores, trials, rows, written,
                   final>>

\* tool identifiers to dispatch: the implemented ones and others
ToolIds == ImplementedTools \cup {"web_scraper", "regex", "LLM", ""}

\* _run_tool called on a tool identifier: the error of line 70, or a list of
\* candidates
CallRunTool ==
    /\ call.fn = "none"
    /\ pc = "unit"
    /\ \E tool \in ToolIds, t \in 1..Len(Corpus), backend \in Backends :
          IF tool \notin ImplementedTools
          THEN call' = [fn |-> "_run_tool",
                        arg |-> [tool |-> tool, text |-> t, llm_backend |-> backend],
                        ret |-> [raised |-> "ValueError", cands |-> <<>>]]
          ELSE \E new_cands \in _run_tool(tool, t, Doc1, backend) :
                  call' = [fn |-> "_run_tool",
                           arg |-> [tool |-> tool, text |-> t, llm_backend |-> backend],
                           ret |-> [raised |-> "", cands |-> new_cands]]
    /\ UNCHANGED <<input, min_completeness, max_steps, llm_backend, pc, paths, doc, tools,
                   step, candidates, best, score, invoked, scores, trials, rows, written,
                   final>>

\* candidates to normalize: flat dicts that hold a canonical value next to the
\* vendor-specific raw field that maps to it, and raw tables with dimension
\* strings of three and of fewer numbers
NormalizeInputs ==
    {from_flat_dict(<< <<"length_mm", v>>, <<"width_mm", Num(500)>>, <<"abmasse", a>> >>,
                    Doc1, "llm") :
        v \in {None, Num(0), Num(150000)},
        a \in {Str(<<"8","0","0"," ","x"," ","6","0","0"," ","x"," ","9","0"," ","m","m">>), Str(<<"8","0","0"," ","m","m">>), NA}}
    \cup {from_flat_dict(<< <<canon, v>>, <<raw, Str(<<"2","5","0","K","G">>)>> >>, Doc1, "llm") :
        v \in {None, Num(0), Num(50000)},
        canon \in {"payload_kg"}, raw \in {"max_last"}}
    \cup {from_flat_dict(<< <<"weight_kg", v>>, <<"eigengewicht", Str(<<"2","5","0","K","G">>)>>,
                            <<"turning_radius_mm", v>>, <<"drehkreis", Str(<<"2","5","0","K","G">>)>>,
                            <<"lift_height_mm", v>>, <<"max_hubhoehe", Str(<<"2","5","0","K","G">>)>> >>,
                         Doc1, "regex_agilox") :
        v \in {None, Num(0), Str(<<>>)}}
    \cup {from_key_values(kv, Doc1, "key_value") :
        kv \in {<< <<<<"A","b","m","e","s","s","u","n","g","e","n">>, <<"8","0","0"," ","x"," ","6","0","0"," ","x"," ","9","0"," ","m","m">>>> >>,
                << <<<<"D","i","m","e","n","s","i","o","n","s"," ","2">>, <<"8","0","0"," ","m","m">>>> >>,
                << <<<<"A","b","m","e","s","s","u","n","g","e","n">>, <<"8","0","0"," ","x"," ","6","0","0"," ","x"," ","9","0"," ","m","m">>>>, <<<<"D","i","m","e","n","s","i","o","n","s"," ","2">>, <<"8","0","0"," ","m","m">>>> >>,
                << <<<<"D","i","m","e","n","s","i","o","n","s"," ","2">>, <<"8","0","0"," ","m","m">>>>, <<<<"A","b","m","e","s","s","u","n","g","e","n">>, <<"8","0","0"," ","x"," ","6","0","0"," ","x"," ","9","0"," ","m","m">>>> >>,
                << <<<<"A","b","m","e","s","s","u","n","g","e","n">>, <<"0"," ","x"," ","5"," ","x"," ","6">>>>, <<<<"P","a","y","l","o","a","d">>, <<"0"," ","k","g">>>> >>}}
    \cup {[c EXCEPT !.fields = Put(Put(c.fields, "abmasse", Str(<<"8","0","0"," ","x"," ","6","0","0"," ","x"," ","9","0"," ","m","m">>)), "max_last", Str(<<"2","5","0","K","G">>))] :
        c \in {from_key_values(<< <<<<"A","b","m","e","s","s","u","n","g","e","n">>, <<"0"," ","x"," ","5"," ","x"," ","6">>>>, <<<<"P","a","y","l","o","a","d">>, <<"0"," ","k","g">>>> >>, Doc1, "key_value")}}

\* normalize_candidate called on a candidate
CallNormalize ==
    /\ call.fn = "none"
    /\ pc = "unit"
    /\ \E c \in NormalizeInputs :
          call' = [fn |-> "normalize_candidate", arg |-> c, ret |-> normalize_candidate(c)]
    /\ UNCHANGED <<input, min_completeness, max_steps, llm_backend, pc, paths, doc, tools,
                   step, candidates, best, score, invoked, scores, trials, rows, written,
                   final>>

UnitNext ==
    \/ CallMerge
    \/ CallValidate
    \/ CallTrialMerge
    \/ CallScore
    \/ CallPlan
    \/ CallRunTool
    \/ CallNormalize

UnitSpec == UnitInit /\ [][UnitNext]_vars

\* the runs of run_extraction_auto together with the direct calls
AllInit == Init \/ UnitInit

AllNext == Next \/ UnitNext

AllSpec == AllInit /\ [][AllNext]_vars

(***************************************************************************)
(* Properties of merge_candidates and validate_candidate (UnitSpec)        *)
(***************************************************************************)
\* the positions of the candidates of cs that carry a non-null value for f
Carriers(cs, f) ==
    {i \in 1..Len(cs) : f \in DOMAIN cs[i].fields /\ cs[i].fields[f].t # "none"}

\* is the field f of the record spec populated
Populated(spec, f) == IF f = "tool_trace" THEN spec[f] # <<>> ELSE spec[f].t # "none"

\* the record spec holds for f the maximum confidence of the carriers of f in
\* cs and the value of a carrier that has that confidence
HoldsMaximum(spec, cs, f) ==
    /\ Carriers(cs, f) # {}
    /\ f \in DOMAIN spec._confidence
    /\ \A i \in Carriers(cs, f) : ConfOf(cs[i], f) <= spec._confidence[f]
    /\ \E i \in Carriers(cs, f) :
          /\ ConfOf(cs[i], f) = spec._confidence[f]
          /\ cs[i].fields[f] = spec[f]

\* C1 as stated: after merge_candidates every populated canonical field (the
\* document identifier and the tool-trace included) has as recorded
\* confidence the maximum confidence of the candidates that carry a non-null
\* value for it, and as value the value of a candidate with that confidence.
C1_Original ==
    call.fn = "merge_candidates" =>
        \A f \in canonical :
            Populated(call.ret, f) => HoldsMaximum(call.ret, call.arg, f)

\* C1: after merge_candidates every populated device/measurement field has as
\* recorded confidence the maximum confidence of the candidates that carry a
\* non-null value for it, and as value the value of a candidate with that
\* confidence; the document identifier is the one of the last candidate and
\* the tool-trace lists the tools of all candidates in order, whatever the
\* candidates' fields hold under those two names.
C1_MaxConfidence ==
    call.fn = "merge_candidates" =>
        /\ \A f \in DeviceFields :
              Populated(call.ret, f) => HoldsMaximum(call.ret, call.arg, f)
        /\ call.arg # <<>> =>
              /\ call.ret.source_id = call.arg[Len(call.arg)].source_id
              /\ call.ret.tool_trace = [i \in 1..Len(call.arg) |-> call.arg[i].tool]

\* a later candidate of higher confidence has replaced an earlier one
C1_Witness ==
    /\ call.fn = "merge_candidates"
    /\ \E i, j \in Carriers(call.arg, "payload_kg") :
          /\ i < j
          /\ ConfOf(call.arg[i], "payload_kg") < ConfOf(call.arg[j], "payload_kg")
          /\ call.arg[i].fields["payload_kg"] # call.arg[j].fields["payload_kg"]
          /\ call.ret.payload_kg = call.arg[j].fields["payload_kg"]
          /\ call.ret._confidence["payload_kg"] = ConfOf(call.arg[j], "payload_kg")

\* the carrier of f in cs that wins: the first one of maximum confidence
Winner(cs, f, w) ==
    /\ w \in Carriers(cs, f)
    /\ \A j \in Carriers(cs, f) :
          /\ ConfOf(cs[j], f) <= ConfOf(cs[w], f)
          /\ j < w => ConfOf(cs[j], f) < ConfOf(cs[w], f)

\* the record spec keeps for f the value and the evidence of the candidate c
Keeps(spec, f, c) ==
    /\ spec[f] = c.fields[f]
    /\ IF f \in DOMAIN c.evidence
       THEN f \in DOMAIN spec._evidence /\ spec._evidence[f] = c.evidence[f]
       ELSE f \notin DOMAIN spec._evidence

C9_CanonicalOnly ==
    call.fn = "merge_candidates" =>
        /\ \A f \in DeviceFields :
              Populated(call.ret, f) =>
                  \E i \in Carriers(call.arg, f) : call.ret[f] = call.arg[i].fields[f]
        /\ DOMAIN call.ret = DOMAIN AGVSpec
        /\ DOMAIN call.ret._evidence \subseteq canonical
        /\ DOMAIN call.ret._confidence \subseteq canonical
        /\ \A i \in 1..Len(call.arg) :
              \A k \in DOMAIN call.arg[i].fields :
                  k \notin canonical =>
                      /\ k \notin DOMAIN call.ret._evidence
                      /\ k \notin DOMAIN call.ret._confidence

\* candidates with non-null values under non-canonical names, with a
\* confidence and an evidence entry, are merged into a populated record
C9_Witness ==
    /\ call.fn = "merge_candidates"
    /\ \E i, j \in 1..Len(call.arg) :
          /\ "abmasse" \in DOMAIN call.arg[i].fields
          /\ call.arg[i].fields["abmasse"].t # "none"
          /\ "abmasse" \in DOMAIN call.arg[i].confidence
          /\ "_kv" \in DOMAIN call.arg[j].fields
          /\ "_kv" \in DOMAIN call.arg[j].evidence
    /\ Populated(call.ret, "payload_kg")

\* is the field key of the candidate c a number outside (0, limit]
Implausible(c, key) ==
    /\ key \in {"payload_kg", "length_mm", "width_mm", "height_mm"}
    /\ key \in DOMAIN c.fields
    /\ c.fields[key].t = "num"
    /\ \/ c.fields[key].n <= 0
       \/ c.fields[key].n > (IF key = "payload_kg" THEN 10000000 ELSE 5000000)

\* C10: validate_candidate halves the confidence of payload_kg exactly when
\* its numeric value is <= 0 or > 100000, and of length_mm, width_mm and
\* height_mm exactly when the numeric value is <= 0 or > 50000; the limits
\* themselves are not penalized; every other confidence, and everything else
\* of the candidate, is unchanged.
C10_HalvesOutOfRange ==
    call.fn = "validate_candidate" =>
        /\ call.ret.fields = call.arg.fields
        /\ call.ret.evidence = call.arg.evidence
        /\ call.ret.source_id = call.arg.source_id
        /\ call.ret.tool = call.arg.tool
        /\ DOMAIN call.ret.confidence = DOMAIN call.arg.confidence
        /\ \A k \in DOMAIN call.arg.confidence :
              call.ret.confidence[k] =
                  IF Implausible(call.arg, k)
                  THEN call.arg.confidence[k] \div 2
                  ELSE call.arg.confidence[k]

\* a payload of exactly 100000 keeps its confidence while a dimension just
\* above 50000 and a speed below 0 are in the same candidate
C10_Witness ==
    /\ call.fn = "validate_candidate"
    /\ {"payload_kg", "width_mm", "speed_m_s"} \subseteq DOMAIN call.arg.confidence
    /\ call.arg.fields["payload_kg"] = Num(10000000)
    /\ call.ret.confidence["payload_kg"] = 650
    /\ call.arg.fields["width_mm"] = Num(5000001)
    /\ call.ret.confidence["width_mm"] = 325
    /\ call.arg.fields["speed_m_s"] = Num(-100)
    /\ call.ret.confidence["speed_m_s"] = 650

(***************************************************************************)
(* Properties of run_extraction_auto (Spec)                                *)
(***************************************************************************)
\* score < min_completeness, for a score in sixths and a threshold in tenths
Below(filled) == filled * 10 < min_completeness * 6

\* a document has been opened and its loop has not been left by an error
InDocument == doc # NoDoc /\ pc \in {"loop", "final", "next_path", "done"}

\* C3: after each tool step the score of the trial merge is compared with
\* min_completeness.  The tools invoked are the first tools of the plan; a
\* tool is invoked only after scores below the threshold, so a score that
\* reaches it ends the tool steps of the document; the loop is left with a
\* score below the threshold only when the plan is exhausted, and while it is
\* not left a planned tool remains to be invoked next.
C3_StopOrContinue ==
    InDocument =>
        /\ Len(scores) = Len(invoked)
        /\ Len(invoked) <= Len(tools)
        /\ invoked = SubSeq(tools, 1, Len(invoked))
        /\ \A i \in 1..(Len(scores) - 1) : Below(scores[i])
        /\ pc = "loop" =>
              /\ step = Len(invoked)
              /\ step < Len(tools)
              /\ scores # <<>> => Below(scores[Len(scores)])
        /\ (pc # "loop" /\ scores # <<>> /\ Below(scores[Len(scores)])) =>
              Len(invoked) = Len(tools)

\* the second of three planned tools reaches the threshold: the third is skipped
C3_Witness ==
    /\ pc = "next_path"
    /\ doc # NoDoc
    /\ Len(tools) = 3
    /\ Len(invoked) = 2
    /\ Below(scores[1])
    /\ ~Below(scores[2])

\* C4: with min_completeness = 0.0 and a step budget of at least 1, exactly
\* one tool is invoked for each document, whatever its candidates contain,
\* and the tool steps of the document end there.
C4_ZeroThresholdOneTool ==
    (min_completeness = 0 /\ max_steps >= 1 /\ InDocument) =>
        IF pc = "loop" THEN invoked = <<>> ELSE invoked = <<tools[1]>>

\* one tool has run and filled no core field, with more tools planned
C4_Witness ==
    /\ min_completeness = 0
    /\ pc = "next_path"
    /\ doc # NoDoc
    /\ Len(tools) >= 2
    /\ Len(invoked) = 1
    /\ scores = <<0>>
    /\ rows # <<>>

\* C5: with min_completeness = 1.0, a configured model backend, max_steps >= 3
\* and no step after which all six core fields are filled, exactly the three
\* planned tools are invoked for the document, in plan order, and the row of
\* the document is the merge of all candidates gathered.
C5_FullBudgetPartialRecord ==
    (/\ min_completeness = 10
     /\ llm_backend # "none"
     /\ max_steps >= 3
     /\ InDocument
     /\ pc # "loop"
     /\ \A i \in 1..Len(scores) : scores[i] < Len(CORE_FIELDS))
    => /\ invoked = _tool_plan_for_text(Corpus[doc.text].text)
       /\ Len(invoked) = 3
       /\ \A i \in 1..Len(candidates) : candidates[i].tool \in {invoked[j] : j \in 1..3}
       /\ pc # "final" =>
             /\ rows # <<>>
             /\ rows[Len(rows)] = to_row_dict(merge_candidates(candidates))
             /\ rows[Len(rows)].tool_trace =
                    Str(Join([i \in 1..Len(candidates) |-> candidates[i].tool], 1))

\* three tools have run, the last one the model-assisted tool, the record
\* is partial and is the row of the document
C5_Witness ==
    /\ min_completeness = 10
    /\ max_steps = 3
    /\ pc = "next_path"
    /\ doc # NoDoc
    /\ Len(invoked) = 3
    /\ invoked[3] = "llm"
    /\ \A i \in 1..3 : scores[i] < Len(CORE_FIELDS)
    /\ scores[3] > 0
    /\ rows # <<>>
    /\ rows[Len(rows)].columns["payload_kg"].t # "none"

\* C6: while a document is processed the candidate list only grows: every
\* step leaves the candidates gathered so far in the list at their positions,
\* and the final merge is over all of them.
C6_CandidatesOnlyGrow ==
    [][(pc \in {"loop", "final"} =>
          /\ Len(candidates) <= Len(candidates')
          /\ SubSeq(candidates', 1, Len(candidates)) = candidates)
       /\ (pc = "final" =>
             /\ rows' # <<>>
             /\ candidates # <<>> =>
                   rows'[Len(rows')].tool_trace =
                       Str(Join([i \in 1..Len(candidates) |-> candidates[i].tool], 1)))]_vars

\* candidates of three tools are in the list in the order of the steps
C6_Witness ==
    /\ pc = "final"
    /\ Len(invoked) = 3
    /\ Len(candidates) >= 3
    /\ candidates[1].tool = invoked[1]
    /\ candidates[Len(candidates)].tool = invoked[3]

\* the row of a record without any value
EmptyRow(row) ==
    /\ \A f \in DOMAIN row.columns : row.columns[f] = None
    /\ row.tool_trace = None
    /\ DOMAIN row.evidence = {}
    /\ DOMAIN row.confidence = {}

\* C7: a document whose tools yield no candidate at all still produces a
\* record: merge_candidates of the empty list has every canonical field null
\* and an empty tool-trace, and that record becomes the row of the document.
C7_EmptyRecord ==
    (InDocument /\ candidates = <<>>) =>
        /\ \A f \in canonical \ {"tool_trace"} : merge_candidates(candidates)[f] = None
        /\ merge_candidates(candidates).tool_trace = <<>>
        /\ pc \in {"next_path", "done"} =>
              /\ rows # <<>>
              /\ EmptyRow(rows[Len(rows)])

\* a document without candidates has got its row
C7_Witness ==
    /\ pc = "next_path"
    /\ doc # NoDoc
    /\ candidates = <<>>
    /\ Len(rows) = 1
    /\ EmptyRow(rows[1])

\* the number of documents among the inputs: the .pdf and .txt paths
NumDocuments(inp) ==
    Cardinality({i \in 1..Len(iter_inputs(inp)) : iter_inputs(inp)[i].suffix \in {"pdf", "txt"}})

\* C8: for every existing file or folder input the run reaches the point
\* where the output table is written, with one row per input document: no
\* error of a collaborator aborts the run or drops the row of a document.
C8_RunCompletes ==
    input.kind \in {"file", "dir"} =>
        /\ pc \notin Raised
        /\ pc = "done" => written = "table" /\ Len(rows) = NumDocuments(input)

(***************************************************************************)
(* Properties of normalizing, validating and merging (UnitSpec)            *)
(***************************************************************************)
\* the candidate c was created with payload_kg = n at confidence 0.65
Proposes(c, n) ==
    /\ "payload_kg" \in DOMAIN c.fields
    /\ c.fields["payload_kg"] = Num(n)
    /\ c.confidence["payload_kg"] = 650

\* the candidate c has no value for payload_kg after normalization
NoPayload(c) == Get(normalize_candidate(c).fields, "payload_kg").t = "none"

\* C11: of candidates that propose payload_kg = 250 and payload_kg = 9999999
\* with the same creation confidence 0.65, validating and merging selects 250
\* with confidence 0.65 in whatever order they come; 9999999 is selected,
\* with confidence 0.325, when no candidate has another value for the field.
C11_PenalizedLoses ==
    call.fn = "trial_merge" =>
        /\ (/\ \E i \in 1..Len(call.arg) : Proposes(call.arg[i], 25000)
            /\ \E i \in 1..Len(call.arg) : Proposes(call.arg[i], 999999900)
            /\ \A i \in 1..Len(call.arg) :
                  Proposes(call.arg[i], 25000) \/ Proposes(call.arg[i], 999999900))
           => /\ call.ret.payload_kg = Num(25000)
              /\ call.ret._confidence["payload_kg"] = 650
        /\ (/\ \E i \in 1..Len(call.arg) : Proposes(call.arg[i], 999999900)
            /\ \A i \in 1..Len(call.arg) :
                  Proposes(call.arg[i], 999999900) \/ NoPayload(call.arg[i]))
           => /\ call.ret.payload_kg = Num(999999900)
              /\ call.ret._confidence["payload_kg"] = 325

\* the out-of-range proposal comes first and the in-range one is selected
C11_Witness ==
    /\ call.fn = "trial_merge"
    /\ Len(call.arg) = 2
    /\ Proposes(call.arg[1], 999999900)
    /\ call.arg[1].tool = "regex_generic"
    /\ Proposes(call.arg[2], 25000)
    /\ call.arg[2].tool = "regex_agilox"
    /\ call.ret.payload_kg = Num(25000)
    /\ call.ret._confidence["payload_kg"] = 650

\* the fields of c have canonical names and values inside the plausibility ranges
CanonicalInRange(c) ==
    /\ DOMAIN c.fields \subseteq canonical
    /\ \A f \in DOMAIN c.fields :
          (f \in {"payload_kg", "length_mm", "width_mm", "height_mm"} /\ c.fields[f].t = "num")
          => /\ c.fields[f].n > 0
             /\ c.fields[f].n <= (IF f = "payload_kg" THEN 10000000 ELSE 5000000)

\* the record spec reproduces the field f of the candidate c: the value, and
\* for a non-null value the confidence
Reproduces(spec, c, f) ==
    /\ spec[f] = c.fields[f]
    /\ c.fields[f].t # "none" =>
          /\ f \in DOMAIN spec._confidence
          /\ spec._confidence[f] = c.confidence[f]

\* C14 as stated: for a single candidate whose fields are all canonical names
\* with in-range values, normalizing, validating and merging it yields a
\* record whose every canonical field equals the candidate's value for it,
\* with the candidate's confidence unchanged.
C14_Original ==
    (call.fn = "trial_merge" /\ Len(call.arg) = 1 /\ CanonicalInRange(call.arg[1])) =>
        \A f \in DOMAIN call.arg[1].fields :
            f # "tool_trace" => Reproduces(call.ret, call.arg[1], f)

\* C14: for a single candidate whose fields are all canonical names with
\* in-range values, normalizing, validating and merging it yields a record
\* whose every device/measurement field equals the candidate's value for it
\* (null where the candidate has none), with the candidate's confidence
\* unchanged; the document identifier and the tool-trace of the record are
\* the candidate's source_id and tool, not what its fields hold.
C14_RoundTrip ==
    (call.fn = "trial_merge" /\ Len(call.arg) = 1 /\ CanonicalInRange(call.arg[1])) =>
        /\ \A f \in DeviceFields :
              IF f \in DOMAIN call.arg[1].fields
              THEN Reproduces(call.ret, call.arg[1], f)
              ELSE call.ret[f] = None
        /\ call.ret.source_id = call.arg[1].source_id
        /\ call.ret.tool_trace = <<call.arg[1].tool>>

\* a candidate with a payload and a width exactly at the limits and a speed
\* of 0 is reproduced
C14_Witness ==
    /\ call.fn = "trial_merge"
    /\ Len(call.arg) = 1
    /\ CanonicalInRange(call.arg[1])
    /\ Get(call.arg[1].fields, "payload_kg") = Num(10000000)
    /\ Get(call.arg[1].fields, "width_mm") = Num(5000000)
    /\ call.ret.payload_kg = Num(10000000)
    /\ call.ret.width_mm = Num(5000000)
    /\ call.ret.speed_m_s = Num(0)
    /\ call.ret._confidence["payload_kg"] = 650

(***************************************************************************)
(* Properties of completeness_score (UnitSpec)                             *)
(***************************************************************************)
\* v is non-null and, when text, not blank after trimming
NonBlank(v) ==
    /\ v.t # "none"
    /\ v.t = "str" => \E i \in 1..Len(v.s) : v.s[i] \notin {" ", "\t", "\n", "\r"}

\* the number of the six core fields of spec that hold a non-blank value
CoreFilled(spec) ==
    Cardinality({f \in {"device_name", "length_mm", "width_mm", "height_mm",
                        "payload_kg", "speed_m_s"} : NonBlank(spec[f])})

\* C12: completeness_score(spec) is k/6, k the number of the six core fields
\* that are non-null and, when text, non-blank after trimming; it lies in
\* [0,1]; a numeric 0 and an implausible value count as filled.  (The score
\* is held as its numerator k, in sixths.)
C12_ScoreIsFilledFraction ==
    call.fn = "completeness_score" =>
        \A i \in 1..2 :
            /\ call.ret[i] = CoreFilled(call.arg[i])
            /\ 0 <= call.ret[i]
            /\ call.ret[i] <= 6

\* a record with a blank name, a length of 0, an implausible width and a
\* negative payload scores 3/6
C12_Witness ==
    /\ call.fn = "completeness_score"
    /\ call.arg[1].device_name = Str(<<" ", " ">>)
    /\ call.arg[1].length_mm = Num(0)
    /\ call.arg[1].width_mm = Num(5000001)
    /\ call.arg[1].height_mm = Str(<<" ">>)
    /\ call.arg[1].payload_kg = Num(-100)
    /\ call.arg[1].speed_m_s = None
    /\ call.ret[1] = 3

\* C13: two records that agree on the six core fields have the same
\* completeness score, whatever vendor, weight_kg, turning_radius_mm,
\* lift_height_mm, source_id, tool_trace and the evidence and confidence
\* side-maps hold.
C13_ScoreDependsOnCoreOnly ==
    (/\ call.fn = "completeness_score"
     /\ \A f \in {"device_name", "length_mm", "width_mm", "height_mm",
                  "payload_kg", "speed_m_s"} : call.arg[1][f] = call.arg[2][f])
    => call.ret[1] = call.ret[2]

\* two records that differ in every field that is not a core field
C13_Witness ==
    /\ call.fn = "completeness_score"
    /\ \A f \in {"device_name", "length_mm", "width_mm", "height_mm",
                 "payload_kg", "speed_m_s"} : call.arg[1][f] = call.arg[2][f]
    /\ \A f \in {"vendor", "weight_kg", "turning_radius_mm", "lift_height_mm", "source_id"} :
          call.arg[1][f] # call.arg[2][f]
    /\ Len(call.arg[1].tool_trace) # Len(call.arg[2].tool_trace)
    /\ DOMAIN call.arg[1]._evidence # DOMAIN call.arg[2]._evidence
    /\ DOMAIN call.arg[1]._confidence # DOMAIN call.arg[2]._confidence
    /\ call.ret[1] = 4
    /\ call.ret[2] = 4

(***************************************************************************)
(* Properties of the planner and the tool dispatch                         *)
(***************************************************************************)
\* the text contains the marker, whatever the case of its letters
HasMarker(text, marker) ==
    \E i \in 0..(Len(text) - Len(marker)) :
        \A j \in 1..Len(marker) : LowerChar(text[i + j]) = marker[j]

\* the text contains one of the vendor markers
HasVendorMarker(text) ==
    \E marker \in {<<"a","g","i","l","o","x">>, <<"n","f","k">>,
                   <<"d","r","e","h","k","r","e","i","s">>,
                   <<"e","i","g","e","n","g","e","w","i","c","h","t">>} :
        HasMarker(text, marker)

\* C15: the plan of _tool_plan_for_text depends on the text only: for a text
\* that contains, case-insensitively, one of the vendor markers (agilox, nfk,
\* drehkreis, eigengewicht) it is the plan that starts with the
\* vendor-specific tool, otherwise the plan that starts with the key-value
\* tool; the last element of both plans is 'llm'.
C15_PlanByMarkers ==
    call.fn = "_tool_plan_for_text" =>
        /\ call.ret = IF HasVendorMarker(call.arg)
                      THEN <<"regex_agilox", "key_value", "llm">>
                      ELSE <<"key_value", "regex_generic", "llm">>
        /\ call.ret[Len(call.ret)] = "llm"

\* a marker written in mixed case inside a longer text selects the vendor plan
C15_Witness ==
    /\ call.fn = "_tool_plan_for_text"
    /\ call.arg = <<"x"," ","N","f","k","2">>
    /\ call.ret[1] = "regex_agilox"
    /\ call.ret[3] = "llm"

\* C16: _run_tool raises the 'Unknown tool' error for every tool identifier
\* outside {regex_agilox, regex_generic, key_value, llm} and for no
\* identifier inside it; run_extraction_auto never reaches that error, since
\* every tool it plans is in this set.
C16_UnknownToolUnreachable ==
    /\ call.fn = "_run_tool" =>
          (call.ret.raised = "ValueError"
             <=> call.arg.tool \notin {"regex_agilox", "regex_generic", "key_value", "llm"})
    /\ pc # "ValueError"
    /\ \A i \in 1..Len(tools) :
          tools[i] \in {"regex_agilox", "regex_generic", "key_value", "llm"}

\* _run_tool has raised for an identifier that differs from an implemented
\* one only in case
C16_Witness ==
    /\ call.fn = "_run_tool"
    /\ call.arg.tool = "LLM"
    /\ call.ret.raised = "ValueError"

\* C17: for a non-empty candidate list merge_candidates sets tool_trace to
\* the tool identifiers of all candidates in input order, one entry per
\* candidate (also for a candidate that wins no field, and repeated when one
\* tool produced several candidates), and source_id to the source_id of the
\* last candidate.
C17_TraceAndSource ==
    (call.fn = "merge_candidates" /\ call.arg # <<>>) =>
        /\ Len(call.ret.tool_trace) = Len(call.arg)
        /\ \A i \in 1..Len(call.arg) : call.ret.tool_trace[i] = call.arg[i].tool
        /\ call.ret.source_id = call.arg[Len(call.arg)].source_id

\* one tool twice, a candidate without any value, and a last candidate with
\* another document identifier than the first
C17_Witness ==
    /\ call.fn = "merge_candidates"
    /\ Len(call.arg) = 3
    /\ call.arg[1].tool = call.arg[2].tool
    /\ call.arg[3].tool # call.arg[1].tool
    /\ \A f \in DOMAIN call.arg[2].fields : f \in canonical => call.arg[2].fields[f].t = "none"
    /\ call.arg[1].source_id # call.arg[3].source_id
    /\ call.ret.source_id = call.arg[3].source_id
    /\ call.ret.tool_trace = <<call.arg[1].tool, call.arg[1].tool, call.arg[3].tool>>

(***************************************************************************)
(* Properties of normalize_candidate (UnitSpec)                            *)
(***************************************************************************)
\* the value the field f of the candidate c holds once the raw key-value
\* table is mapped, before the vendor-specific raw fields are looked at
SetBefore(c, f) == Get(MapRawTable(c.fields), f)

\* C18: the vendor-specific raw fields (abmasse, max_last, eigengewicht,
\* drehkreis, max_hubhoehe) only fill canonical fields that are not set: a
\* canonical field that holds a value from the raw key-value table or from
\* creation, the value 0 included, holds that value after normalization.
C18_FallbackKeepsSetValues ==
    call.fn = "normalize_candidate" =>
        \A f \in {"length_mm", "width_mm", "height_mm", "payload_kg", "weight_kg",
                  "turning_radius_mm", "lift_height_mm"} :
            SetBefore(call.arg, f).t # "none" =>
                Get(call.ret.fields, f) = SetBefore(call.arg, f)

\* the texts of the candidate c that are parsed as dimension strings, in the
\* order of processing: the values of the matching raw keys, then abmasse
DimensionStrings(c) ==
    (IF Get(c.fields, "_kv").t = "dict"
     THEN SelectSeq(c.fields["_kv"].kv, LAMBDA item : HasAny(Lower(item[1]), DimensionKeys))
     ELSE <<>>)
    \o (IF Get(c.fields, "abmasse").t = "str" THEN << <<"abmasse", c.fields["abmasse"].s>> >>
        ELSE <<>>)

\* fewer than three numbers are found in the text
FewNumbers(text) == Len(FindNumbers(Lower(text), 1)) < 3

\* the raw table of the candidate c without its last dimension string
WithoutLastDimensionString(c) ==
    SelectSeq(c.fields["_kv"].kv,
              LAMBDA item : item # DimensionStrings(c)[Len(DimensionStrings(c))])

\* C19: a dimension string in which fewer than three numbers are found sets
\* no dimension field: length_mm, width_mm and height_mm keep the value they
\* had before the string was processed.  For the last dimension string of a
\* raw table that is the value normalizing the table without it gives, for
\* an abmasse field the value the fields hold once the raw table is mapped.
C19_FewNumbersSetNothing ==
    call.fn = "normalize_candidate" =>
        /\ (/\ Get(call.arg.fields, "_kv").t = "dict"
            /\ Get(call.arg.fields, "abmasse").t # "str"
            /\ DimensionStrings(call.arg) # <<>>
            /\ FewNumbers(DimensionStrings(call.arg)[Len(DimensionStrings(call.arg))][2]))
           => \A f \in {"length_mm", "width_mm", "height_mm"} :
                 Get(call.ret.fields, f) =
                     Get(NormalizeKV(call.arg.fields, WithoutLastDimensionString(call.arg), 1), f)
        /\ (/\ Get(call.arg.fields, "abmasse").t = "str"
            /\ FewNumbers(call.arg.fields["abmasse"].s))
           => \A f \in {"length_mm", "width_mm", "height_mm"} :
                 Get(call.ret.fields, f) = SetBefore(call.arg, f)

(***************************************************************************)
(* Properties of the tool loop (Spec)                                      *)
(***************************************************************************)
\* the plan of a text, cut to a budget of n steps, without the
\* model-assisted tool when no backend is configured
BudgetedPlan(text, n, backend) ==
    SelectSeq(SubSeq(IF HasVendorMarker(text)
                     THEN <<"regex_agilox", "key_value", "llm">>
                     ELSE <<"key_value", "regex_generic", "llm">>,
                     1, IF n < 3 THEN n ELSE 3),
              LAMBDA tool : backend # "none" \/ tool # "llm")

Finished == doc # NoDoc /\ pc \in {"next_path", "done"}

\* C21: for every document for which at least one tool step ran, the record
\* of the final merge equals, in every field, in both side-maps, in the tool
\* trace and in source_id, the trial record of the last executed step; that
\* step is the one whose score met the threshold or the one of the last
\* planned tool.
C21_FinalIsLastTrial ==
    (Finished /\ step > 0) =>
        /\ final = best
        /\ score = scores[step]
        /\ ThresholdReached(score, min_completeness) \/ step = Len(tools)

\* a document stopped by the threshold at its second step, before its plan
\* was exhausted, with a two-candidate record kept by the final merge
C21_Witness ==
    /\ Finished
    /\ step = 2
    /\ step < Len(tools)
    /\ ~ThresholdReached(scores[1], min_completeness)
    /\ Len(candidates) >= 2
    /\ final = best
    /\ final.tool_trace = [i \in 1..Len(candidates) |-> candidates[i].tool]
    /\ DOMAIN final._confidence # {}

(***************************************************************************)
(* Properties of the successive trial records of a document (Spec)         *)
(***************************************************************************)
\* the confidence a record keeps for field f, 0 when it keeps none
Kept(spec, f) == IF f \in DOMAIN spec._confidence THEN spec._confidence[f] ELSE 0

\* the records computed after the trial record of step j: the trial records
\* of the later steps and, once it is made, the record of the final merge
LaterRecords(j) ==
    {trials[k] : k \in (j + 1)..Len(trials)} \cup (IF Finished THEN {final} ELSE {})

\* from the record earlier to the record later, the value of f is the same
\* or is one of strictly higher confidence
ReplacedByHigher(earlier, later, f) ==
    later[f] # earlier[f] => Kept(later, f) > Kept(earlier, f)

\* the trace earlier is an initial part of the trace later
Extends(earlier, later) ==
    /\ Len(earlier) <= Len(later)
    /\ \A i \in 1..Len(earlier) : later[i] = earlier[i]

\* C22 as stated: across the tool steps of one document, a canonical field
\* that is populated in the trial record after step k is populated in the
\* trial record after every later step and in the final record, and its
\* value is only ever replaced by one of strictly higher confidence.
C22_Original ==
    \A j \in 1..Len(trials) : \A r \in LaterRecords(j) : \A f \in canonical :
        Populated(trials[j], f) =>
            /\ Populated(r, f)
            /\ ReplacedByHigher(trials[j], r, f)

\* C22: across the tool steps of one document, a canonical field that is
\* populated in the trial record after step k is populated in the trial
\* record after every later step and in the final record; the value of a
\* device or measurement field is only ever replaced by one of strictly
\* higher confidence, source_id keeps its value, and tool_trace is extended
\* by the tools of the candidates the later steps append.
C22_PopulatedNeverShrinks ==
    \A j \in 1..Len(trials) : \A r \in LaterRecords(j) :
        /\ \A f \in canonical : Populated(trials[j], f) => Populated(r, f)
        /\ \A f \in DeviceFields :
              Populated(trials[j], f) => ReplacedByHigher(trials[j], r, f)
        /\ Populated(trials[j], "source_id") => r.source_id = trials[j].source_id
        /\ Extends(trials[j].tool_trace, r.tool_trace)

\* a finished document of several steps: a field populated after the first
\* step has another value, of higher confidence, in the final record, and
\* the tool trace of the first step has been extended
C22_Witness ==
    /\ Finished
    /\ Len(trials) >= 2
    /\ \E f \in DeviceFields :
          /\ Populated(trials[1], f)
          /\ Populated(final, f)
          /\ final[f] # trials[1][f]
          /\ Kept(final, f) > Kept(trials[1], f)
    /\ trials[1].tool_trace # <<>>
    /\ Len(final.tool_trace) > Len(trials[1].tool_trace)

(***************************************************************************)
(* Properties of raw-table candidates (UnitSpec)                           *)
(***************************************************************************)
\* the candidate holds a raw table
HoldsRawTable(c) == "_kv" \in DOMAIN c.fields

\* the candidate as the loop appends it
Appended(c) == validate_candidate(normalize_candidate(c))

\* the candidates of cs that supply a value for canonical field f to the merge
Suppliers(cs, f) == {i \in 1..Len(cs) : f \in Eligible(Appended(cs[i]))}

\* C23: a candidate built by from_key_values carries a confidence entry only
\* under "_kv" (0.55); normalize_candidate and validate_candidate add no
\* confidence entry, so every canonical field such a candidate supplies
\* enters merge_candidates with confidence 0.0, and validate_candidate leaves
\* the candidate's confidences as they are even when a value is out of range.
C23_RawTableZeroConfidence ==
    /\ call.fn = "normalize_candidate" => call.ret.confidence = call.arg.confidence
    /\ call.fn = "validate_candidate" =>
          /\ DOMAIN call.ret.confidence = DOMAIN call.arg.confidence
          /\ HoldsRawTable(call.arg) =>
                /\ DOMAIN call.arg.confidence = {"_kv"}
                /\ call.ret.confidence = call.arg.confidence
    /\ call.fn = "trial_merge" =>
          /\ \A i \in 1..Len(call.arg) :
                HoldsRawTable(call.arg[i]) =>
                    /\ DOMAIN call.arg[i].confidence = {"_kv"}
                    /\ call.arg[i].confidence["_kv"] = 550
                    /\ Appended(call.arg[i]).confidence = call.arg[i].confidence
                    /\ Eligible(Appended(call.arg[i])) \cap
                          DOMAIN Appended(call.arg[i]).confidence = {}
          /\ \A f \in DOMAIN call.ret._confidence :
                (\A i \in Suppliers(call.arg, f) : HoldsRawTable(call.arg[i])) =>
                    call.ret._confidence[f] = 0

\* a raw table whose payload and dimensions are out of range, merged alone:
\* the record takes the values with confidence 0
C23_Witness ==
    /\ call.fn = "trial_merge"
    /\ Len(call.arg) = 1
    /\ HoldsRawTable(call.arg[1])
    /\ OutOfRange(Get(Appended(call.arg[1]).fields, "payload_kg"), PayloadLimit)
    /\ OutOfRange(Get(Appended(call.arg[1]).fields, "length_mm"), DimensionLimit)
    /\ call.ret.payload_kg = Num(999999900)
    /\ call.ret.width_mm = Num(9000000)
    /\ call.ret._confidence["payload_kg"] = 0
    /\ call.ret._confidence["width_mm"] = 0

====
